---- MODULE Spec2Model ----
(***************************************************************************)
(* The video job of the YOLO object-detection app: one Streamlit session   *)
(* running process_video_file (src/src/video_processing.py), which calls   *)
(* compress_video (src/src/video_compression.py) and process_video         *)
(* (src/src/video_detection.py).  process_video is modelled statement      *)
(* group by statement group, because the session flag `processing` is      *)
(* polled by its frame loop while the UI may clear it.                     *)
(***************************************************************************)
EXTENDS Integers, Sequences, FiniteSets, TLC

\* ---------------------------------------------------------------- bounds
MaxFrames == 4      \* longest input stream, in frames
MaxN      == 2      \* largest "process every Nth frame" value tried
MaxBoxes  == 1      \* most boxes the detector returns for one frame
MaxLog    == 3      \* longest detection log summarised on its own
MaxSide   == 6      \* largest frame width, frame height and target height

\* ------------------------------------------------------ program constants
DefaultTargetFps == 15      \* the Target FPS slider's value
ConfThreshold    == 50      \* the Confidence threshold slider's value, in percent

Classes    == {"car"}
Confs      == {30, 80}                  \* confidences, in percent
\* CAP_PROP_FPS of an upload, in half frames per second: 0.5 and 2.5 fps
FpsValues  == {1, 5}
\* model.model carries an fp16 attribute, or none at all; both are models
\* whose call applies the conf argument itself, as the YOLO class does
ModelKinds == {"has_fp16", "no_fp16"}
\* ... and a model (with the attribute) whose call returns its boxes whatever
\* conf says
AnyModelKinds == ModelKinds \cup {"unfiltered"}

None == "None"

\* The files the user puts into the uploader, numbered in the order they are
\* put there since the session began or was last reset: a first one and one
\* that replaces it.  0 stands for no file.
Uploads == {1, 2}

\* A video file as cv2 sees it: whether VideoCapture opens it, how many frames
\* read() delivers before it returns ret = False, and the frame rate the
\* container declares (in half frames per second).
NoVideo == [openable |-> FALSE, frames |-> 0, fps |-> 0]

\* The uploads tried: a file cv2 cannot open, or one that opens.
Videos ==
    {NoVideo} \cup [openable : {TRUE}, frames : 0..MaxFrames, fps : FpsValues]

\* CAP_PROP_FRAME_COUNT of a file holding the given number of readable
\* frames: that number, or one more (a truncated file).
DeclaredFrameCounts(frames) == {frames, frames + 1}

\* One detection: class name and confidence.
Boxes == [cls : Classes, conf : Confs]

RECURSIVE SeqsUpTo(_, _)
SeqsUpTo(S, n) ==
    IF n = 0 THEN {<<>>}
    ELSE LET shorter == SeqsUpTo(S, n - 1)
         IN  shorter \cup {Append(s, x) : s \in {t \in shorter : Len(t) = n - 1}, x \in S}

\* The confidences of the boxes a model of the given kind returns when
\* called with conf = ConfThreshold
ModelConfs(kind) ==
    IF kind = "unfiltered" THEN Confs ELSE {c \in Confs : c >= ConfThreshold}

\* What one call of the model can return: results[0].boxes
DetectorOutputs(kind) ==
    SeqsUpTo({b \in Boxes : b.conf \in ModelConfs(kind)}, MaxBoxes)

\* last_result = None
NoResult == [src |-> -1, boxes |-> <<>>, orig_img |-> -1]

\* What out.write was last given: the source frame, and the frame whose
\* detection result was drawn on it (-1: written bare).
NoWrite == [frame |-> -1, annot |-> -1]

\* The columns of the statistics table, as named at lines 188-195 (with the
\* group key put back by reset_index) and again at line 204
StatsColumns == <<"Class", "Count", "Avg_Confidence", "Min_Confidence",
                  "Max_Confidence", "First_Seen", "Last_Seen">>

\* Where process_video's frame loop stood when the flag was cleared under
\* it: frames read and frames written by then (NoStop: it was not, or the
\* loop is over).
NoStop == [reads |-> -1, written |-> -1]

\* detection_stats = None / a DataFrame with the given columns and rows
NoStats == [isNone |-> TRUE, columns |-> <<>>, rows |-> {}]

Min2(a, b) == IF a < b THEN a ELSE b

\* fps = int(cap.get(cv2.CAP_PROP_FPS)), of a rate given in halves
IntFps(rate) == rate \div 2

VARIABLES
    \* st.session_state
    processing, output_video_path, detection_stats, uploaded_file_data,
    processing_time, sync_time,
    \* the file_uploader widget and the uploaded file behind it
    uploaded_file, video,
    \* the script run of process_video_file
    pf_pc, video_path, use_compression, process_video_path, N, lastRun, displayed, start_processing, processed_upload,
    \* the temporary files on disk that the script run under way (or the last
    \* one) and the reruns since have created, whether earlier runs have left
    \* any behind, the compressed file's content
    fs, leaked, compressed, compFault,
    \* compress_video's handles
    ccap, cout,
    \* process_video
    pv_pc, cap, out, frame_count, last_result, all_detections, written,
    lastWrite, reads, detCalls, detStatus, notices, cancelObserved,
    transcodeCalls, ffmpeg, pv_ret, modelKind, polls, stopAt,
    \* compress_video's frame sizes (followed on their own, in SpecResize)
    orig_width, orig_height, resolution, new_width, new_height

sessionVars == <<processing, output_video_path, detection_stats, uploaded_file_data,
                 processing_time, sync_time>>
uploadVars  == <<uploaded_file, video>>
pfVars      == <<pf_pc, video_path, use_compression, process_video_path, N, lastRun,
                 displayed, start_processing, processed_upload>>
fileVars    == <<fs, leaked, compressed, compFault, ccap, cout>>
pvVars      == <<pv_pc, cap, out, frame_count, last_result, all_detections, written,
                 lastWrite, reads, detCalls, detStatus, notices, cancelObserved,
                 transcodeCalls, ffmpeg, pv_ret, modelKind, polls, stopAt>>
sizeVars    == <<orig_width, orig_height, resolution, new_width, new_height>>
vars == <<sessionVars, uploadVars, pfVars, fileVars, pvVars, sizeVars>>

\* ------------------------------------------------------------ statistics
SetMin(S) == CHOOSE x \in S : \A y \in S : x <= y
SetMax(S) == CHOOSE x \in S : \A y \in S : x >= y

RECURSIVE SumConfidence(_, _)
SumConfidence(log, c) ==
    IF log = <<>> THEN 0
    ELSE (IF Head(log).Class = c THEN Head(log).Confidence ELSE 0)
         + SumConfidence(Tail(log), c)

\* f"{x:.2f}" of a mean of confidences given in hundredths: the nearest
\* hundredth (a mean exactly between two hundredths is taken upwards)
FormatMean(sum, count) == (2 * sum + count) \div (2 * count)

\* f"{x:.1f}s" of a time num / den seconds, in tenths of a second: the
\* nearest tenth (no quotient of a frame index by the fps of one of the
\* Videos or by DefaultTargetFps lies exactly between two tenths)
FormatSeconds(t) == (20 * t.num + t.den) \div (2 * t.den)

\* min and max of a column of times
TimeMin(S) == CHOOSE t \in S : \A u \in S : t.num * u.den <= u.num * t.den
TimeMax(S) == CHOOSE t \in S : \A u \in S : t.num * u.den >= u.num * t.den

\* Variant of FirstSeen: the time of the group's first entry in log order.
FirstSeenOfFirstEntry(log, idx) == log[SetMin(idx)].Time

\* First_Seen=('Time', 'min') over the entries idx of one class
FirstSeen(log, idx) == TimeMin({log[i].Time : i \in idx})

\* One row of stats_df.groupby('Class').agg(...), formatted (lines 198-202)
ClassRow(log, c) ==
    LET idx == {i \in DOMAIN log : log[i].Class = c}
    IN  [Class          |-> c,
         Count          |-> Cardinality(idx),
         Avg_Confidence |-> FormatMean(SumConfidence(log, c), Cardinality(idx)),
         Min_Confidence |-> SetMin({log[i].Confidence : i \in idx}),
         Max_Confidence |-> SetMax({log[i].Confidence : i \in idx}),
         First_Seen     |-> FormatSeconds(FirstSeen(log, idx)),
         Last_Seen      |-> FormatSeconds(TimeMax({log[i].Time : i \in idx}))]

\* class_stats: one row per class of the log (lines 183-202), or the table
\* without rows that line 204 builds for an empty log
ClassStats(log) ==
    IF log # <<>>
    THEN [isNone  |-> FALSE,
          columns |-> StatsColumns,
          rows    |-> {ClassRow(log, c) : c \in {log[i].Class : i \in DOMAIN log}}]
    ELSE [isNone |-> FALSE, columns |-> StatsColumns, rows |-> {}]

\* The entry appended to all_detections for one box of frame fc
LogEntry(box, fc, fps) ==
    [Class |-> box.cls, Confidence |-> box.conf, Frame |-> fc,
     Time |-> [num |-> fc, den |-> fps]]

LogEntries(boxes, fc, fps) == [i \in DOMAIN boxes |-> LogEntry(boxes[i], fc, fps)]

\* ------------------------------------------------------------------ Init
\* A session after initialize_session_state; nothing uploaded, no script
\* running, no temporary file on disk ...
IdleSession ==
    /\ processing = FALSE
    /\ output_video_path = None
    /\ detection_stats = NoStats
    /\ uploaded_file_data = 0
    /\ processing_time = 0
    /\ sync_time = 0
    /\ uploaded_file = 0
    /\ video = NoVideo
    /\ pf_pc = "idle"
    /\ video_path = None
    /\ use_compression = FALSE
    /\ process_video_path = None
    /\ N = 1
    /\ lastRun = "none"
    /\ displayed = FALSE
    /\ start_processing = FALSE
    /\ processed_upload = 0
    /\ fs = {}
    /\ leaked = FALSE
    /\ compressed = NoVideo
    /\ compFault = "none"
    /\ ccap = FALSE
    /\ cout = FALSE
    /\ pv_pc = "idle"
    /\ cap = FALSE
    /\ out = FALSE
    /\ frame_count = 0
    /\ last_result = NoResult
    /\ written = <<>>
    /\ lastWrite = NoWrite
    /\ reads = 0
    /\ detCalls = <<>>
    /\ detStatus = "none"
    /\ notices = {}
    /\ cancelObserved = FALSE
    /\ transcodeCalls = 0
    /\ ffmpeg = "none"
    /\ pv_ret = [path |-> None, stats |-> NoStats]
    /\ polls = 0
    /\ stopAt = NoStop

\* ... with no detection logged and no frame size looked at
FreshSession ==
    /\ IdleSession
    /\ all_detections = <<>>
    /\ orig_width = 0
    /\ orig_height = 0
    /\ resolution = 0
    /\ new_width = 0
    /\ new_height = 0

\* The model load_model returned: a YOLO model, which applies conf itself.
Init ==
    /\ FreshSession
    /\ modelKind \in ModelKinds

\* The same session with any model object behind the call of lines 82-87.
InitAnyModel ==
    /\ FreshSession
    /\ modelKind \in AnyModelKinds

\* ------------------------------------------------- process_video_file, UI
\* The script run after the user picks a file in the uploader, the first or
\* one that replaces the file shown there: the bytes are kept in session
\* state if none are kept yet, a temporary copy is written, the options and
\* the buttons (or the stored result) are rendered, and nothing else happens.
\* (With processing set the run would go on from line 73: see StartRun.)
UploadRun ==
    /\ pf_pc = "idle"
    /\ ~processing
    /\ uploaded_file + 1 \in Uploads
    /\ \E v \in Videos :
        /\ video' = v
        /\ uploaded_file' = uploaded_file + 1
        /\ uploaded_file_data' = IF uploaded_file_data = 0 THEN uploaded_file + 1
                                  ELSE uploaded_file_data
        /\ fs' = fs \cup {"upload_copy"}
    /\ UNCHANGED <<processing, output_video_path, detection_stats, pfVars,
                   compressed, compFault, leaked, ccap, cout, pvVars>>
    /\ UNCHANGED <<processing_time, sync_time>>
    /\ UNCHANGED sizeVars

\* Variant of MayStart: the buttons are rendered and obeyed whether or not a
\* result is stored.
MayStartAlways(path) == TRUE

\* Line 62: the buttons are there only while no result is stored.
MayStart(path) == path = None

\* A script run that gets to line 73 with Start Processing pressed, or with
\* processing still set from an earlier run (any widget change reruns the
\* script): up to the point where compression or detection begins.
StartRun ==
    /\ pf_pc = "idle"
    /\ uploaded_file # 0
    /\ MayStart(output_video_path)
    /\ \E pressed \in BOOLEAN :
        /\ pressed \/ processing
        /\ start_processing' = pressed
    /\ video_path' = "video_path"
    \* every temporary file gets a fresh name: what is still on disk from
    \* before this run stays there for good
    /\ leaked' = (leaked \/ fs # {})
    /\ fs' = {"video_path"}
    /\ processing' = TRUE
    /\ process_video_path' = "video_path"
    /\ \E uc \in BOOLEAN, n \in 1..MaxN :
        /\ use_compression' = uc
        /\ N' = n
        /\ pf_pc' = IF uc THEN "compress" ELSE "precheck"
    /\ lastRun' = "running"
    \* a new run starts with a fresh page and fresh locals
    /\ notices' = {}
    /\ compFault' = "none"
    /\ compressed' = NoVideo
    /\ ccap' = FALSE
    /\ cout' = FALSE
    /\ cap' = FALSE
    /\ out' = FALSE
    /\ cancelObserved' = FALSE
    /\ transcodeCalls' = 0
    /\ ffmpeg' = "none"
    /\ UNCHANGED <<output_video_path, detection_stats, uploaded_file_data, uploadVars,
                   displayed, processed_upload, pv_pc, frame_count, last_result,
                   all_detections, written, lastWrite, reads, detCalls, detStatus,
                   pv_ret, modelKind, polls, stopAt>>
    /\ UNCHANGED <<processing_time, sync_time>>
    /\ UNCHANGED sizeVars

\* Stop Processing pressed while the flag is set, during a job or after a
\* run that left it set: the handler clears the flag.
StopClicked ==
    /\ pf_pc \in {"idle", "compress", "precheck", "in_pv"}
    /\ output_video_path = None
    /\ processing = TRUE
    /\ processing' = FALSE
    /\ stopAt' = IF pv_pc \in {"loop", "read", "detect", "annotate"}
                 THEN [reads |-> reads, written |-> Len(written)]
                 ELSE stopAt
    /\ UNCHANGED <<output_video_path, detection_stats, uploaded_file_data, uploadVars,
                   pfVars, fileVars, pv_pc, cap, out, frame_count, last_result,
                   all_detections, written, lastWrite, reads, detCalls, detStatus,
                   notices, cancelObserved, transcodeCalls, ffmpeg, pv_ret, modelKind,
                   polls>>
    /\ UNCHANGED <<processing_time, sync_time>>
    /\ UNCHANGED sizeVars

\* --------------------------------------------------------- compress_video
\* Frames the compression loop reads before it stops: range(total_frames),
\* left early when read() returns ret = False.
FramesCompressed(v, total_frames) == Min2(total_frames, v.frames)

\* compress_video's return value: False only when the capture does not open
\* or an exception is caught.
CompressionSuccess(v, raised) == v.openable /\ ~raised

\* What went wrong in the pre-pass, if anything.
CompressionFault(v, total_frames, wopen, raised) ==
    IF ~v.openable THEN "unreadable"
    ELSE IF raised THEN "exception"
    ELSE IF ~wopen THEN "writer"
    ELSE IF v.frames < total_frames THEN "readfail"
    ELSE "none"

\* The file left at output_path: frames written through an opened writer at
\* the target frame rate; a file without frames may or may not open later.
CompressedFile(v, total_frames, wopen, reopens) ==
    LET n == IF wopen THEN FramesCompressed(v, total_frames) ELSE 0
    IN  [openable |-> IF n > 0 THEN TRUE ELSE wopen /\ reopens,
         frames |-> n, fps |-> 2 * DefaultTargetFps]

\* Line 82 creates the temporary output file, then compress_video runs as a
\* whole: total_frames is the declared frame count, wopen says whether the
\* VideoWriter opened (the code never asks), raised whether cv2.resize or
\* out.write raised on the first frame.
CompressVideo ==
    /\ pf_pc = "compress"
    /\ fs' = fs \cup {"compressed_video_path"}
    /\ IF ~video.openable
       THEN /\ compressed' = NoVideo
            /\ compFault' = CompressionFault(video, 0, FALSE, FALSE)
            /\ UNCHANGED <<ccap, cout, process_video_path>>
       ELSE \E total_frames \in DeclaredFrameCounts(video.frames),
               wopen \in BOOLEAN, raised \in BOOLEAN, reopens \in BOOLEAN :
            /\ raised => FramesCompressed(video, total_frames) >= 1
            /\ compressed' = IF CompressionSuccess(video, raised)
                             THEN CompressedFile(video, total_frames, wopen, reopens)
                             ELSE NoVideo
            /\ compFault' = CompressionFault(video, total_frames, wopen, raised)
            \* the except branch returns without releasing either handle
            /\ ccap' = raised
            /\ cout' = (wopen /\ raised)
            /\ process_video_path' = IF CompressionSuccess(video, raised)
                                     THEN "compressed_video_path" ELSE video_path
    /\ pf_pc' = "precheck"
    /\ UNCHANGED <<sessionVars, uploadVars, video_path, use_compression, N, lastRun,
                   displayed, start_processing, processed_upload, leaked, pvVars>>
    /\ UNCHANGED sizeVars

\* The file process_video is asked to read.
FileAt(path) == IF path = "compressed_video_path" THEN compressed ELSE video

\* Lines 106-114: the flag is looked at once more; if it was cleared the
\* script stops here (st.stop), otherwise process_video is entered.
PreCheck ==
    /\ pf_pc = "precheck"
    /\ IF ~processing
       THEN /\ pf_pc' = "idle"
            /\ lastRun' = "stopped"
            /\ UNCHANGED pvVars
       ELSE /\ pf_pc' = "in_pv"
            /\ lastRun' = lastRun
            /\ pv_pc' = "open"
            /\ cap' = FALSE
            /\ out' = FALSE
            /\ frame_count' = 0
            /\ last_result' = NoResult
            /\ all_detections' = <<>>
            /\ written' = <<>>
            /\ lastWrite' = NoWrite
            /\ reads' = 0
            /\ detCalls' = <<>>
            /\ detStatus' = "none"
            /\ pv_ret' = [path |-> None, stats |-> NoStats]
            /\ polls' = 0
            /\ stopAt' = NoStop
            /\ UNCHANGED <<notices, cancelObserved, transcodeCalls, ffmpeg, modelKind>>
    /\ UNCHANGED <<sessionVars, uploadVars, video_path, use_compression,
                   process_video_path, N, displayed, start_processing,
                   processed_upload, fileVars>>
    /\ UNCHANGED sizeVars

\* ---------------------------------------------------------- process_video
\* Line 65 names torch, which video_detection.py never imports: reaching it
\* (model.model without an fp16 attribute) raises NameError.  With the
\* attribute present, its value only picks between two calls of the model
\* (lines 82-87) on the same frame with the same threshold.
PrecisionCheckRaises == modelKind = "no_fp16"

\* Lines 25-70: the two temporary output files are created, the capture and
\* the writer are opened and checked, the precision of the model is looked up.
PVOpen ==
    /\ pv_pc = "open"
    /\ fs' = fs \cup {"temp_output_path", "final_output_path"}
    /\ LET src == FileAt(process_video_path)
       IN  IF ~src.openable
           THEN /\ notices' = notices \cup {"Could not open video file"}
                /\ pv_pc' = "returned"
                /\ UNCHANGED <<cap, out>>
           ELSE \E wopen \in BOOLEAN :
                /\ cap' = TRUE
                /\ out' = wopen
                /\ IF ~wopen
                   THEN /\ notices' = notices \cup
                               {"Failed to create output video writer"}
                        /\ pv_pc' = "returned"
                   ELSE /\ notices' = notices
                        /\ pv_pc' = IF PrecisionCheckRaises THEN "raised" ELSE "loop"
    /\ UNCHANGED <<sessionVars, uploadVars, pfVars, compressed, compFault, leaked, ccap, cout,
                   frame_count, last_result, all_detections, written, lastWrite, reads, detCalls,
                   detStatus, cancelObserved, transcodeCalls, ffmpeg, pv_ret, modelKind, polls, stopAt>>
    /\ UNCHANGED sizeVars

\* Where control goes when the loop is left, by break or by the flag: the
\* statements after the loop (line 134 on) in both cases.
\* Variant of AfterLoop: a cancelled loop returns at once.
AfterLoopCancelReturns(cancelled) == IF cancelled THEN "returned" ELSE "release"

AfterLoop(cancelled) == "release"

\* Variant of LoopCondition: the flag is looked at on every other frame.
LoopConditionEveryOtherFrame(capOpen, flag, fc) == capOpen /\ (flag \/ fc % 2 = 1)

\* Line 73: cap.isOpened() and st.session_state.get('processing', True)
LoopCondition(capOpen, flag, fc) == capOpen /\ flag

\* Line 73: the loop condition, where the session flag is read (polls counts
\* the evaluations).  notices holds the messages shown since the loop
\* condition was last evaluated.
PVLoopCheck ==
    /\ pv_pc = "loop"
    /\ polls' = polls + 1
    /\ IF LoopCondition(cap, processing, frame_count)
       THEN /\ pv_pc' = "read"
            /\ UNCHANGED cancelObserved
       ELSE /\ pv_pc' = AfterLoop(~processing)
            /\ cancelObserved' = ~processing
    /\ notices' = {}
    /\ UNCHANGED <<sessionVars, uploadVars, pfVars, fileVars, cap, out, frame_count,
                   last_result, all_detections, written, lastWrite, reads, detCalls,
                   detStatus, transcodeCalls, ffmpeg, pv_ret, modelKind, stopAt>>
    /\ UNCHANGED sizeVars

\* Lines 74-76: cap.read(); the stream delivers its frames in order.
PVRead ==
    /\ pv_pc = "read"
    /\ IF frame_count < FileAt(process_video_path).frames
       THEN /\ reads' = reads + 1
            /\ pv_pc' = "detect"
       ELSE /\ reads' = reads
            /\ pv_pc' = AfterLoop(FALSE)
    /\ UNCHANGED <<sessionVars, uploadVars, pfVars, fileVars, cap, out, frame_count,
                   last_result, all_detections, written, lastWrite, detCalls, detStatus, notices,
                   cancelObserved, transcodeCalls, ffmpeg, pv_ret, modelKind, polls, stopAt>>
    /\ UNCHANGED sizeVars

\* Variant of ShouldDetect: N is ignored.
ShouldDetectEveryFrame(fc, n) == TRUE

\* Line 79: is detection run on this frame?
ShouldDetect(fc, n) == fc % n = 0

\* Lines 78-109: the detection try-block.  modelRaises: the model call
\* raises.  Otherwise boxes is what it returns; the result is stored at once
\* (line 89), and only then are the log entries built: their "Time" divides
\* by fps, and logRaises says that one of the calls of lines 93-98 raises on
\* the first box.
PVDetect ==
    /\ pv_pc = "detect"
    /\ IF ShouldDetect(frame_count, N)
       THEN \E modelRaises \in BOOLEAN, logRaises \in BOOLEAN,
               boxes \in DetectorOutputs(modelKind) :
            /\ modelRaises => boxes = <<>> /\ ~logRaises
            /\ logRaises => Len(boxes) > 0
            /\ detCalls' = Append(detCalls, frame_count)
            /\ IF modelRaises
               THEN /\ UNCHANGED <<last_result, all_detections>>
                    /\ detStatus' = "error"
                    /\ notices' = notices \cup {"Error processing frame"}
               ELSE /\ last_result' = [src |-> frame_count, boxes |-> boxes,
                                       orig_img |-> frame_count]
                    /\ IF \/ logRaises
                          \/ Len(boxes) > 0 /\ IntFps(FileAt(process_video_path).fps) = 0
                       THEN /\ UNCHANGED all_detections
                            /\ detStatus' = "error"
                            /\ notices' = notices \cup
                                   {"Error processing frame"}
                       ELSE /\ all_detections' = all_detections \o
                                   LogEntries(boxes, frame_count,
                                              IntFps(FileAt(process_video_path).fps))
                            /\ detStatus' = "ok"
                            /\ UNCHANGED notices
       ELSE /\ detStatus' = "skipped"
            /\ UNCHANGED <<detCalls, last_result, all_detections, notices>>
    /\ pv_pc' = "annotate"
    /\ UNCHANGED <<sessionVars, uploadVars, pfVars, fileVars, cap, out, frame_count,
                   written, lastWrite, reads, cancelObserved, transcodeCalls, ffmpeg, pv_ret,
                   modelKind, polls, stopAt>>
    /\ UNCHANGED sizeVars

\* Variant of Annotation: the cached result is drawn on sampled frames only.
AnnotationOnSampledFramesOnly(lr, fc, n) == IF fc % n = 0 THEN lr.src ELSE -1

\* Lines 113-118: what is drawn on frame fc is the cached result lr,
\* whichever frame it was computed on (annot: that frame).
Annotation(lr, fc, n) == lr.src

\* Variant of WriteOnAnnotationError: the except branch writes nothing.
WriteOnAnnotationErrorDropped(w, fc) == w

\* Line 128: the bare frame is written when annotating raised.
WriteOnAnnotationError(w, fc) == Append(w, fc)

\* Lines 111-132: plot the cached result on the current frame and write it;
\* if plotting raises, write the bare frame (orig_img is then not restored).
\* written: the frames of the output stream, in the order written.
PVAnnotate ==
    /\ pv_pc = "annotate"
    /\ IF last_result # NoResult
       THEN \E plotRaises \in BOOLEAN :
            IF plotRaises
            THEN /\ last_result' = [last_result EXCEPT !.orig_img = frame_count]
                 /\ lastWrite' = [frame |-> frame_count, annot |-> -1]
                 /\ written' = WriteOnAnnotationError(written, frame_count)
                 /\ notices' = notices \cup {"Error annotating frame"}
            ELSE /\ lastWrite' = [frame |-> frame_count,
                                  annot |-> Annotation(last_result, frame_count, N)]
                 /\ written' = Append(written, frame_count)
                 /\ UNCHANGED <<last_result, notices>>
       ELSE /\ lastWrite' = [frame |-> frame_count, annot |-> -1]
            /\ written' = Append(written, frame_count)
            /\ UNCHANGED <<last_result, notices>>
    /\ frame_count' = frame_count + 1
    /\ pv_pc' = "loop"
    /\ UNCHANGED <<sessionVars, uploadVars, pfVars, fileVars, cap, out, all_detections,
                   reads, detCalls, detStatus, cancelObserved, transcodeCalls, ffmpeg,
                   pv_ret, modelKind, polls, stopAt>>
    /\ UNCHANGED sizeVars

\* Variant of PVRelease: out.release() is missing.
PVReleaseCaptureOnly ==
    /\ pv_pc = "release"
    /\ cap' = FALSE
    /\ pv_pc' = "transcode"
    /\ stopAt' = NoStop
    /\ UNCHANGED <<sessionVars, uploadVars, pfVars, fileVars, out, frame_count,
                   last_result, all_detections, written, lastWrite, reads, detCalls,
                   detStatus, notices, cancelObserved, transcodeCalls, ffmpeg, pv_ret,
                   modelKind, polls>>
    /\ UNCHANGED sizeVars

\* Lines 134-139: both handles are released after the loop.
PVRelease ==
    /\ pv_pc = "release"
    /\ cap' = FALSE
    /\ out' = FALSE
    /\ pv_pc' = "transcode"
    /\ stopAt' = NoStop
    /\ UNCHANGED <<sessionVars, uploadVars, pfVars, fileVars, frame_count, last_result,
                   all_detections, written, lastWrite, reads, detCalls, detStatus,
                   notices, cancelObserved, transcodeCalls, ffmpeg, pv_ret, modelKind,
                   polls>>
    /\ UNCHANGED sizeVars

\* Variant of FinalOutputPath: the exit code is ignored.
FinalOutputPathNoFallback(outcome) == "final_output_path"

\* Lines 166-180: the path served after the encoder ran with the given outcome.
FinalOutputPath(outcome) ==
    IF outcome = "ok" THEN "final_output_path" ELSE "temp_output_path"

\* Lines 141-206: ffmpeg is run on the raw output, the raw file is unlinked
\* on exit code 0, the statistics table is built and both are returned.
PVTranscode ==
    /\ pv_pc = "transcode"
    /\ transcodeCalls' = transcodeCalls + 1
    /\ \E outcome \in {"ok", "nonzero", "raise"}, unlinkOk \in BOOLEAN :
        /\ outcome # "ok" => unlinkOk
        /\ ffmpeg' = outcome
        /\ fs' = IF outcome = "ok" /\ unlinkOk THEN fs \ {"temp_output_path"} ELSE fs
        /\ notices' = notices \cup
              (CASE outcome = "nonzero" -> {"Error converting video"}
                 [] outcome = "raise"   -> {"Error during video conversion"}
                 [] OTHER -> IF unlinkOk THEN {}
                             ELSE {"Could not remove temporary file"})
        /\ pv_ret' = [path |-> FinalOutputPath(outcome), stats |-> ClassStats(all_detections)]
    /\ pv_pc' = "returned"
    /\ UNCHANGED <<sessionVars, uploadVars, pfVars, compressed, compFault, leaked, ccap, cout,
                   cap, out, frame_count, last_result, all_detections, written, lastWrite, reads,
                   detCalls, detStatus, cancelObserved, modelKind, polls, stopAt>>
    /\ UNCHANGED sizeVars

\* -------------------------------------- process_video_file, after the call
\* Line 119: time.time() - start_time, the seconds the call took.
Elapsed == 1

\* Lines 116-171: the result is stored, the flag cleared, the temporary
\* input files deleted (clean_up_temp_file may fail), the result displayed.
PFStore ==
    /\ pf_pc = "in_pv"
    /\ pv_pc = "returned"
    /\ detection_stats' = pv_ret.stats
    /\ processing_time' = Elapsed
    /\ processing' = FALSE
    /\ \E rmCompressed \in BOOLEAN, rmVideo \in BOOLEAN :
        /\ ~use_compression => rmCompressed
        /\ fs' = (fs \ (IF use_compression /\ rmCompressed
                        THEN {"compressed_video_path"} ELSE {}))
                    \ (IF rmVideo THEN {video_path} ELSE {})
    /\ IF pv_ret.path # None /\ pv_ret.path \in fs
       THEN /\ output_video_path' = pv_ret.path
            /\ displayed' = TRUE
            /\ processed_upload' = uploaded_file
       ELSE /\ output_video_path' = None
            /\ displayed' = FALSE
            /\ processed_upload' = 0
    /\ pf_pc' = "idle"
    /\ lastRun' = "completed"
    /\ pv_pc' = "idle"
    \* process_video's locals are gone once it has returned
    /\ frame_count' = 0
    /\ last_result' = NoResult
    /\ all_detections' = <<>>
    /\ written' = <<>>
    /\ lastWrite' = NoWrite
    /\ reads' = 0
    /\ detCalls' = <<>>
    /\ detStatus' = "none"
    /\ pv_ret' = [path |-> None, stats |-> NoStats]
    /\ polls' = 0
    /\ stopAt' = NoStop
    /\ UNCHANGED <<uploaded_file_data, uploadVars, video_path, use_compression,
                   process_video_path, N, start_processing, compressed, compFault, leaked,
                   ccap, cout, cap, out, notices, cancelObserved, transcodeCalls, ffmpeg,
                   modelKind>>
    /\ UNCHANGED sync_time
    /\ UNCHANGED sizeVars

\* process_video raised: nothing in process_video_file catches it, so the
\* script run ends at the call, with the flag still set and nothing cleaned.
PFCrash ==
    /\ pf_pc = "in_pv"
    /\ pv_pc = "raised"
    /\ pf_pc' = "idle"
    /\ lastRun' = "crashed"
    /\ pv_pc' = "idle"
    /\ UNCHANGED <<sessionVars, uploadVars, video_path, use_compression,
                   process_video_path, N, displayed, start_processing,
                   processed_upload, fileVars, cap, out,
                   frame_count, last_result, all_detections, written, lastWrite, reads, detCalls,
                   detStatus, notices, cancelObserved, transcodeCalls, ffmpeg, pv_ret,
                   modelKind, polls, stopAt>>
    /\ UNCHANGED sizeVars

\* Lines 136-148 with Play Both Videos Simultaneously pressed under a
\* displayed result: the slider's start time (0.0 to processing_time in
\* steps of 1.0) becomes sync_time. The run has written its temporary copy
\* of the file in the uploader before.
SyncRun ==
    /\ pf_pc = "idle"
    /\ output_video_path # None
    /\ output_video_path \in fs
    /\ \E start_time \in 0..processing_time : sync_time' = start_time
    /\ displayed' = TRUE
    /\ fs' = fs \cup {"upload_copy"}
    /\ UNCHANGED <<processing, output_video_path, detection_stats, uploaded_file_data,
                   processing_time, uploadVars, pf_pc, video_path, use_compression,
                   process_video_path, N, lastRun, start_processing, processed_upload,
                   leaked, compressed, compFault, ccap, cout, pvVars>>
    /\ UNCHANGED sizeVars

\* Lines 163-166: Process Another Video pressed under a displayed result.
\* reset_session_state clears the result, the kept bytes and the two times
\* (it does not assign the flag), and st.experimental_rerun ends the script
\* run there.
ResetRun ==
    /\ pf_pc = "idle"
    /\ output_video_path # None
    /\ output_video_path \in fs
    /\ output_video_path' = None
    /\ detection_stats' = NoStats
    /\ processing_time' = 0
    /\ uploaded_file_data' = 0
    /\ sync_time' = 0
    /\ displayed' = FALSE
    /\ processed_upload' = 0
    /\ start_processing' = FALSE
    /\ lastRun' = "reset"
    /\ pf_pc' = "rerun"
    /\ UNCHANGED <<processing, uploadVars, video_path, use_compression,
                   process_video_path, N, fileVars, pvVars>>
    /\ UNCHANGED sizeVars

\* The script run st.experimental_rerun asked for, lines 40-64: it keeps the
\* bytes of the file still in the uploader and writes a temporary copy of
\* it; no button is pressed in it.
RerunAfterReset ==
    /\ pf_pc = "rerun"
    \* the file in the uploader is the first upload from here on
    /\ uploaded_file' = 1
    /\ uploaded_file_data' = IF uploaded_file_data = 0 THEN 1 ELSE uploaded_file_data
    /\ fs' = fs \cup {"upload_copy"}
    /\ pf_pc' = "idle"
    /\ UNCHANGED <<processing, output_video_path, detection_stats, processing_time,
                   sync_time, video, video_path, use_compression, process_video_path,
                   N, lastRun, displayed, start_processing, processed_upload, leaked,
                   compressed, compFault, ccap, cout, pvVars>>
    /\ UNCHANGED sizeVars

\* ------------------------------------------------------------------ Spec
Next ==
    \/ UploadRun
    \/ StartRun
    \/ StopClicked
    \/ CompressVideo
    \/ PreCheck
    \/ PVOpen
    \/ PVLoopCheck
    \/ PVRead
    \/ PVDetect
    \/ PVAnnotate
    \/ PVRelease
    \/ PVTranscode
    \/ PFStore
    \/ PFCrash
    \/ SyncRun
    \/ ResetRun
    \/ RerunAfterReset

Spec == Init /\ [][Next]_vars

\* The job with a model that need not honour conf.
SpecAnyModel == InitAnyModel /\ [][Next]_vars

\* ------------------------------------------- the statistics on their own
\* Detection logs as lines 101-106 build them, in any order of their entries:
\* two classes, the confidences of Confs, frames 0 and 1 of a 2 fps stream.
StatsLogs ==
    SeqsUpTo({LogEntry([cls |-> c, conf |-> x], fc, 2) :
                  c \in {"car", "person"}, x \in Confs, fc \in {0, 1}}, MaxLog)

InitStats ==
    /\ IdleSession
    /\ all_detections \in StatsLogs
    /\ orig_width = 0
    /\ orig_height = 0
    /\ resolution = 0
    /\ new_width = 0
    /\ new_height = 0
    /\ modelKind = "has_fp16"

\* Lines 182-206: the table is built from the log and returned.
Summarize ==
    /\ pv_ret.stats.isNone
    /\ pv_ret' = [path |-> "final_output_path", stats |-> ClassStats(all_detections)]
    /\ UNCHANGED <<sessionVars, uploadVars, pfVars, fileVars, pv_pc, cap, out,
                   frame_count, last_result, all_detections, written, lastWrite, reads,
                   detCalls, detStatus, notices, cancelObserved, transcodeCalls, ffmpeg,
                   modelKind, polls, stopAt, sizeVars>>

NextStats == Summarize

SpecStats == InitStats /\ [][NextStats]_vars

\* ---------------------------------- compress_video's sizes on their own
\* int(x) of the float product orig_width * scale_factor, scale_factor being
\* the float quotient resolution / orig_height: the whole part of
\* w * r / h, or, where that quotient is a whole number but r / h is not a
\* binary fraction, possibly one less (int(149 * (240 / 298)) is 119).
WidthsComputed(w, h, r) ==
    LET q == (w * r) \div h
    IN  IF (w * r) % h = 0 /\ q > 0 /\ \A k \in 0..h : (r * (2 ^ k)) % h # 0
        THEN {q, q - 1} ELSE {q}

\* A source of any size up to MaxSide (0: cv2 does not know it) and a target
\* height; nothing computed yet.
InitResize ==
    /\ IdleSession
    /\ all_detections = <<>>
    /\ modelKind = "has_fp16"
    /\ orig_width \in 0..MaxSide
    /\ orig_height \in 0..MaxSide
    /\ resolution \in 1..MaxSide
    /\ new_width = -1
    /\ new_height = -1

\* Lines 27-39: the size of the frames compress_video writes.
ResizeDims ==
    /\ new_width = -1
    /\ IF orig_height > resolution
       THEN /\ new_width' \in WidthsComputed(orig_width, orig_height, resolution)
            /\ new_height' = resolution
       ELSE /\ new_width' = orig_width
            /\ new_height' = orig_height
    /\ UNCHANGED <<sessionVars, uploadVars, pfVars, fileVars, pvVars, orig_width,
                   orig_height, resolution>>

NextResize == ResizeDims

SpecResize == InitResize /\ [][NextResize]_vars

\* ============================================================ properties
CeilDiv(a, b) == (a + b - 1) \div b

\* process_video got past opening the input and the writer and has not
\* returned to its caller yet.
InFrameLoop == pv_pc \in {"loop", "read", "detect", "annotate"}

\* C1: in every run of process_video, for every N, the frames written equal
\* the frames successfully read: between two iterations (and after the loop)
\* the two counts agree, inside an iteration exactly one read awaits its
\* write, and the output holds the source frames 0, 1, 2, ... in order,
\* whatever the detection and the annotation did.
C1_FramesWrittenEqualFramesRead ==
    /\ pv_pc \notin {"detect", "annotate"} => Len(written) = reads
    /\ pv_pc \in {"detect", "annotate"} => reads = Len(written) + 1
    /\ \A i \in DOMAIN written : written[i] = i - 1

\* C1 witness: a third frame has just been written, with N = 2, although its
\* detection failed and its annotation failed.
C1_Witness ==
    /\ pv_pc = "loop"
    /\ N = 2
    /\ reads = 3
    /\ Len(written) = 3
    /\ detStatus = "error"
    /\ "Error annotating frame" \in notices

\* C2 (as claimed): a frame whose index is not divisible by N (N > 1) carries
\* the annotation of the most recent divisible frame's detection result, or
\* is written bare when no detection result exists yet.
C2_AsClaimed ==
    (/\ pv_pc = "loop"
     /\ N > 1
     /\ lastWrite # NoWrite
     /\ lastWrite.frame % N # 0)
    => \/ lastWrite.annot = lastWrite.frame - (lastWrite.frame % N)
       \/ lastWrite.annot = -1 /\ last_result = NoResult

\* C2 (amended): a frame whose index is not divisible by N (N > 1) is drawn
\* with the cached result, which is the result stored by the most recent
\* sampled frame whose model call returned (the cache changes only there);
\* it is written bare only if nothing is cached yet or drawing raised.
C2_StaleResultReused ==
    /\ [][(pv_pc = "annotate" /\ pv_pc' = "loop" /\ N > 1 /\ frame_count % N # 0)
            => /\ lastWrite'.frame = frame_count
               /\ lastWrite'.annot \in {last_result.src, -1}
               /\ lastWrite'.annot = -1
                    => \/ last_result = NoResult
                       \/ "Error annotating frame" \in notices']_vars
    /\ [][(InFrameLoop /\ last_result'.src # last_result.src)
            => /\ pv_pc = "detect"
               /\ frame_count % N = 0
               /\ detCalls' = Append(detCalls, frame_count)
               /\ last_result'.src = frame_count]_vars

\* C2 witness: with N = 2, frame 3 was written with the result of frame 0,
\* the detection of frame 2 having raised.
C2_Witness ==
    /\ pv_pc = "loop"
    /\ N = 2
    /\ lastWrite = [frame |-> 3, annot |-> 0]

\* C3: the detector is invoked on exactly the frames whose zero-based index
\* is divisible by N, so a run that is not cancelled makes ceil(F / N)
\* invocations over a stream of F frames and writes F frames.
C3_DetectorInvocations ==
    /\ \A i \in DOMAIN detCalls : detCalls[i] = (i - 1) * N
    /\ InFrameLoop =>
         Len(detCalls) = CeilDiv(IF pv_pc = "annotate" THEN frame_count + 1
                                 ELSE frame_count, N)
    /\ (pv_pc = "returned" /\ transcodeCalls = 1 /\ ~cancelObserved)
         => /\ Len(written) = FileAt(process_video_path).frames
            /\ Len(detCalls) = CeilDiv(FileAt(process_video_path).frames, N)

\* C3 witness: an uncancelled run over 3 frames with N = 2 has returned after
\* 2 invocations.
C3_Witness ==
    /\ pv_pc = "returned"
    /\ transcodeCalls = 1
    /\ ~cancelObserved
    /\ N = 2
    /\ FileAt(process_video_path).frames = 3
    /\ detCalls = <<0, 2>>

\* C4 (as claimed): whenever the detection try-block of a sampled frame ends
\* in its except branch, the cached last result is what it was before the
\* step (and the frame goes on to be annotated and written).
C4_CacheUnchangedOnDetectionError ==
    [][(pv_pc = "detect" /\ pv_pc' = "annotate" /\ detStatus' = "error")
         => last_result' = last_result]_vars

C6_CancelKeepsWrittenFrames ==
    /\ [](cancelObserved /\ pv_pc # "idle"
            => /\ Len(written) = frame_count
               /\ reads = frame_count
               /\ \A i \in DOMAIN written : written[i] = i - 1
               /\ pv_pc \in {"release", "transcode", "returned"}
               /\ pv_pc \in {"transcode", "returned"} => ~cap /\ ~out
               /\ pv_pc = "returned" => pv_ret.path \in fs)
    /\ [][(cancelObserved /\ pv_pc' # "idle")
            => /\ reads' = reads
               /\ written' = written
               /\ detCalls' = detCalls
               /\ frame_count' = frame_count]_vars

\* C6 witness: the flag was observed after 2 of 4 frames and the run has
\* returned a path.
C6_Witness ==
    /\ cancelObserved
    /\ pv_pc = "returned"
    /\ written = <<0, 1>>
    /\ FileAt(process_video_path).frames = 4
    /\ pv_ret.path # None

\* C7 (as claimed): whenever the compression pre-pass went wrong (input
\* unreadable, writer not opened, a frame read failed, an exception), the
\* detection runs on the original upload and the job ends with an output
\* video stored in session state.
C7_CompressionFailureFallsBack ==
    /\ (compFault # "none" /\ pf_pc = "in_pv") => process_video_path = video_path
    /\ (compFault # "none" /\ pf_pc = "idle" /\ lastRun = "completed")
         => output_video_path # None

\* C8 (as claimed): after the encoder ran, a non-zero exit code or a failure
\* to run it makes process_video return the raw file's path with the
\* statistics; exit code 0 makes it return the transcoded file's path, and
\* the raw file is removed.
C8_AsClaimed ==
    (pv_pc = "returned" /\ transcodeCalls = 1)
    => /\ ffmpeg \in {"nonzero", "raise"}
            => /\ pv_ret.path = "temp_output_path"
               /\ pv_ret.stats = ClassStats(all_detections)
       /\ ffmpeg = "ok"
            => /\ pv_ret.path = "final_output_path"
               /\ "temp_output_path" \notin fs

\* C8 (amended): as claimed, except that on exit code 0 the raw file is
\* removed only if deleting it succeeds; if it fails, a warning is shown, the
\* raw file stays and the transcoded path is returned all the same.  The
\* file returned always exists.
C8_TranscodeFallback ==
    (pv_pc = "returned" /\ transcodeCalls = 1)
    => /\ ffmpeg \in {"ok", "nonzero", "raise"}
       /\ pv_ret.path \in fs
       /\ pv_ret.stats = ClassStats(all_detections)
       /\ ffmpeg \in {"nonzero", "raise"}
            => /\ pv_ret.path = "temp_output_path"
               /\ notices \cap {"Error converting video",
                                "Error during video conversion"} # {}
       /\ ffmpeg = "ok"
            => /\ pv_ret.path = "final_output_path"
               /\ \/ "temp_output_path" \notin fs
                  \/ "Could not remove temporary file" \in notices

\* C8 witness: the encoder exited with a non-zero code and the raw path came
\* back with a non-empty statistics table.
C8_Witness ==
    /\ pv_pc = "returned"
    /\ ffmpeg = "nonzero"
    /\ pv_ret.path = "temp_output_path"
    /\ pv_ret.stats.rows # {}

\* C9 (as claimed): an input that cannot be opened or yields no frame makes
\* process_video return (None, None) without any detector invocation, frame
\* write or transcoder invocation.
C9_NoFramesIsFileError ==
    (/\ pv_pc = "returned"
     /\ \/ ~FileAt(process_video_path).openable
        \/ FileAt(process_video_path).frames = 0)
    => /\ detCalls = <<>>
       /\ written = <<>>
       /\ transcodeCalls = 0
       /\ pv_ret = [path |-> None, stats |-> NoStats]

\* C10 (as claimed): when a script run has ended (completed, stopped or
\* crashed), no capture or writer is left unreleased and no temporary file
\* is left on disk other than the output the session serves.
C10_ResourcesReleased ==
    (pf_pc = "idle" /\ lastRun \in {"completed", "stopped", "crashed"})
    => /\ ~cap /\ ~out /\ ~ccap /\ ~cout
       /\ fs \subseteq {output_video_path}

\* C11 (as claimed): no result in the cache and no entry of the detection log
\* (hence nothing drawn) has a confidence below the threshold, whatever the
\* model returned.
C11_NoDetectionBelowThreshold ==
    /\ \A i \in DOMAIN last_result.boxes : last_result.boxes[i].conf >= ConfThreshold
    /\ \A i \in DOMAIN all_detections : all_detections[i].Confidence >= ConfThreshold

\* The script run ended on a job-fatal failure: process_video could not open
\* its input or its writer, or it raised.
FatalFailure ==
    /\ pf_pc = "idle"
    /\ \/ lastRun = "crashed"
       \/ /\ lastRun = "completed"
          /\ notices \cap {"Could not open video file",
                            "Failed to create output video writer"} # {}

\* C12 (as claimed): after a job-fatal failure the processing flag is False
\* and no output path is stored, and a job is under way only if Start
\* Processing was pressed in the script run that began it.
C12_ReadyForRetryAfterFatalFailure ==
    /\ FatalFailure => ~processing /\ output_video_path = None
    /\ pf_pc # "idle" => start_processing

Permuted(log, p) == [i \in DOMAIN log |-> log[p[i]]]

\* C14: the table built from a detection log is the table built from any
\* permutation of that log, and the table of the empty log has the same
\* columns and no rows.
C14_StatisticsOrderIndependent ==
    ~pv_ret.stats.isNone
    => /\ \A p \in Permutations(DOMAIN all_detections) :
            ClassStats(Permuted(all_detections, p)) = pv_ret.stats
       /\ pv_ret.stats.columns = StatsColumns
       /\ all_detections = <<>> => pv_ret.stats.rows = {}

\* C14 witness: the table of a three-entry log of two classes whose entries
\* are not in the order of their times.
C14_Witness ==
    /\ ~pv_ret.stats.isNone
    /\ Len(all_detections) = 3
    /\ Cardinality(pv_ret.stats.rows) = 2
    /\ all_detections[1].Class = all_detections[3].Class
    /\ all_detections[1].Time.num > all_detections[3].Time.num

RECURSIVE SumOfCounts(_)
SumOfCounts(rows) ==
    IF rows = {} THEN 0
    ELSE LET r == CHOOSE x \in rows : TRUE
         IN  r.Count + SumOfCounts(rows \ {r})

\* The time t is frame index fc over a frame rate given in halves.
IsTimeOfFrame(t, fc, rate) == t.num * rate = 2 * fc * t.den

\* C15 (as claimed): the log only grows by appending; every frame for which
\* the detector returned a result adds exactly one entry per detection of
\* that result, each with the frame's index and the time index / source fps;
\* at the end the Count values add up to the length of the log, and in every
\* row First_Seen <= Last_Seen.
C15_OneLogEntryPerDetection ==
    /\ [][InFrameLoop =>
            /\ Len(all_detections') >= Len(all_detections)
            /\ SubSeq(all_detections', 1, Len(all_detections)) = all_detections]_vars
    /\ [][(pv_pc = "detect" /\ pv_pc' = "annotate" /\ last_result'.src = frame_count)
            => /\ Len(all_detections') = Len(all_detections) + Len(last_result'.boxes)
               /\ \A i \in DOMAIN last_result'.boxes :
                    LET e == all_detections'[Len(all_detections) + i]
                    IN  /\ e.Class = last_result'.boxes[i].cls
                        /\ e.Confidence = last_result'.boxes[i].conf
                        /\ e.Frame = frame_count
                        /\ IsTimeOfFrame(e.Time, frame_count,
                                         FileAt(process_video_path).fps)]_vars
    /\ [](pv_pc = "returned" /\ transcodeCalls = 1
            => /\ SumOfCounts(pv_ret.stats.rows) = Len(all_detections)
               /\ \A r \in pv_ret.stats.rows : r.First_Seen <= r.Last_Seen)

\* C16: the loop condition, the one place where the flag is read, is
\* evaluated exactly once per frame iteration; once the flag has been cleared
\* under process_video at most one more frame is read and at most one more
\* written, wherever in the iteration it was cleared, and the next
\* evaluation of the loop condition leaves the loop.
C16_CancelLatencyOneFrame ==
    /\ [](InFrameLoop => polls = frame_count + (IF pv_pc = "loop" THEN 0 ELSE 1))
    /\ [](pv_pc \in {"release", "transcode"} \/ (pv_pc = "returned" /\ transcodeCalls = 1)
            => polls = frame_count + 1)
    /\ [](stopAt # NoStop
            => /\ reads <= stopAt.reads + 1
               /\ Len(written) <= stopAt.written + 1
               /\ reads <= stopAt.written + 1)
    /\ [][(pv_pc = "loop" /\ ~processing) => pv_pc' \notin {"loop", "read"}]_vars
    /\ [][(InFrameLoop /\ ~processing /\ pv_pc' = "read") => FALSE]_vars

\* C16 witness: the flag was cleared between the loop condition and the read
\* of the third frame; that frame was read and written, and the loop was left.
C16_Witness ==
    /\ cancelObserved
    /\ pv_pc = "release"
    /\ stopAt = [reads |-> 2, written |-> 2]
    /\ reads = 3
    /\ Len(written) = 3

\* C17 (as claimed): once compress_video has returned in a job, a frame read
\* that failed before total_frames frames were read, or an encoder that did
\* not open, has made it return False (the original is what detection gets);
\* and the compressed file is handed to detection only if it holds every
\* frame of the source.
C17_CompressionReportsFailure ==
    (pf_pc \in {"precheck", "in_pv"} /\ use_compression)
    => /\ compFault \in {"readfail", "writer"} => process_video_path = video_path
       /\ process_video_path = "compressed_video_path"
            => /\ compressed.openable
               /\ compressed.frames = video.frames

\* C18 (as claimed): the annotate-and-write step of a frame leaves the cached
\* result, the image it refers to included, as it found it, whether drawing
\* succeeded or raised; a frame whose drawing raised is written bare.
C18_AnnotationLeavesCacheUnchanged ==
    [][(pv_pc = "annotate" /\ pv_pc' = "loop")
         => /\ last_result' = last_result
            /\ "Error annotating frame" \in notices'
                 => lastWrite' = [frame |-> frame_count, annot |-> -1]]_vars

\* n is a whole number nearest to a / b.
IsRounded(n, a, b) == 2 * (n * b - a) <= b /\ 2 * (a - n * b) <= b

\* C19 (as claimed): once compress_video has computed its output size, it is
\* (round(orig_width * resolution / orig_height), resolution) if the source
\* is higher than the target height, and the source size otherwise.
C19_OutputSizeRounded ==
    new_width # -1
    => IF orig_height > resolution
       THEN /\ IsRounded(new_width, orig_width * resolution, orig_height)
            /\ new_height = resolution
       ELSE /\ new_width = orig_width
            /\ new_height = orig_height

\* C20 (as claimed): whenever a result is displayed, the bytes kept in
\* session state as the original video are those of the upload that was
\* processed into output_video_path.
C20_OriginalIsTheProcessedUpload ==
    (displayed /\ output_video_path # None) => uploaded_file_data = processed_upload

\* The six session variables as initialize_session_state leaves them.
SessionInitial ==
    /\ processing = FALSE
    /\ sync_time = 0
    /\ output_video_path = None
    /\ detection_stats = NoStats
    /\ processing_time = 0
    /\ uploaded_file_data = 0

\* C21: a stored result and an active job exclude each other (whenever
\* output_video_path is not None, processing is False), and when the script
\* run of Process Another Video has ended with reset_session_state, every
\* session variable, processing included, has its initial value from
\* initialize_session_state.
C21_ResultExcludesJobAndResetIsInitial ==
    /\ output_video_path # None => ~processing
    /\ pf_pc = "rerun" => SessionInitial

\* C21 witness: Process Another Video has just reset the session whose
\* result, made from the second file put in the uploader, had been stored
\* after transcoding.
C21_Witness ==
    /\ pf_pc = "rerun"
    /\ lastRun = "reset"
    /\ transcodeCalls = 1
    /\ uploaded_file = 2
    /\ SessionInitial

====
